---- MODULE Spec2Model ----
(***************************************************************************)
(* Model of tools/random/ziggurat_normal.py: the script that builds the    *)
(* layer table x[0..C] of the Ziggurat normal sampler and prints it.       *)
(*                                                                         *)
(* Python floats are modelled as signed fixed-point numbers with FracLimbs *)
(* limbs of 13 bits after the binary point (4 * 13 = 52 bits, the          *)
(* fraction width of a binary64), kept as sign and magnitude so that -0.0  *)
(* exists as it does in Python.  The magnitude is an exact natural number  *)
(* held as a little-endian sequence of limbs, because one TLC integer is   *)
(* too narrow for it.  math.exp, math.log and math.sqrt are computed by    *)
(* series and digit-by-digit root extraction to that precision.            *)
(***************************************************************************)
EXTENDS Integers, Sequences

FracLimbs == 4
Base == 2 ^ 13

(***************************************************************************)
(* Exact natural numbers: <<>> is 0, a[1] is the least significant limb,   *)
(* the last limb is never 0.                                               *)
(***************************************************************************)
RECURSIVE Trim(_)
Trim(a) ==
    IF a = <<>> THEN <<>>
    ELSE IF a[Len(a)] = 0 THEN Trim(SubSeq(a, 1, Len(a) - 1))
    ELSE a

RECURSIVE BFromInt(_)
BFromInt(n) == IF n = 0 THEN <<>> ELSE <<n % Base>> \o BFromInt(n \div Base)

Limb(a, k) == IF k <= Len(a) THEN a[k] ELSE 0

RECURSIVE AddFrom(_, _, _, _)
AddFrom(a, b, k, c) ==
    IF k > Len(a) /\ k > Len(b) THEN BFromInt(c)
    ELSE <<(Limb(a, k) + Limb(b, k) + c) % Base>>
         \o AddFrom(a, b, k + 1, (Limb(a, k) + Limb(b, k) + c) \div Base)

BAdd(a, b) == AddFrom(a, b, 1, 0)

\* a - b for a >= b
RECURSIVE SubFrom(_, _, _, _)
SubFrom(a, b, k, c) ==
    IF k > Len(a) THEN <<>>
    ELSE IF a[k] - Limb(b, k) - c < 0
         THEN <<a[k] - Limb(b, k) - c + Base>> \o SubFrom(a, b, k + 1, 1)
         ELSE <<a[k] - Limb(b, k) - c>> \o SubFrom(a, b, k + 1, 0)

BSub(a, b) == Trim(SubFrom(a, b, 1, 0))

\* -1, 0, 1 as a < b, a = b, a > b, comparing from limb k down
RECURSIVE CmpFrom(_, _, _)
CmpFrom(a, b, k) ==
    IF k = 0 THEN 0
    ELSE IF a[k] < b[k] THEN -1
    ELSE IF a[k] > b[k] THEN 1
    ELSE CmpFrom(a, b, k - 1)

BCmp(a, b) ==
    IF Len(a) < Len(b) THEN -1
    ELSE IF Len(a) > Len(b) THEN 1
    ELSE CmpFrom(a, b, Len(a))

BLe(a, b) == BCmp(a, b) <= 0
BLt(a, b) == BCmp(a, b) < 0

\* a * k for a small k (k < 2^17)
RECURSIVE MulSmallFrom(_, _, _, _)
MulSmallFrom(a, k, i, c) ==
    IF i > Len(a) THEN BFromInt(c)
    ELSE <<(a[i] * k + c) % Base>> \o MulSmallFrom(a, k, i + 1, (a[i] * k + c) \div Base)

BMulSmall(a, k) == IF k = 0 THEN <<>> ELSE MulSmallFrom(a, k, 1, 0)

\* floor(a / k) for a small k (0 < k < 2^17): limbs from the top, r the remainder so far
RECURSIVE DivSmallFrom(_, _, _, _)
DivSmallFrom(a, k, i, r) ==
    IF i = 0 THEN <<>>
    ELSE DivSmallFrom(a, k, i - 1, (r * Base + a[i]) % k) \o <<(r * Base + a[i]) \div k>>

BDivSmall(a, k) == Trim(DivSmallFrom(a, k, Len(a), 0))

\* the sum of a[i+1] * b[c-i+1] over the i of column c (columns from 0)
RECURSIVE ColFrom(_, _, _, _)
ColFrom(a, b, c, i) ==
    IF i > c \/ i >= Len(a) THEN 0
    ELSE (IF c - i < Len(b) THEN a[i + 1] * b[c - i + 1] ELSE 0) + ColFrom(a, b, c, i + 1)

RECURSIVE MulFrom(_, _, _, _)
MulFrom(a, b, c, carry) ==
    IF c > Len(a) + Len(b) - 2 THEN BFromInt(carry)
    ELSE LET s == ColFrom(a, b, c, 0) + carry
         IN  <<s % Base>> \o MulFrom(a, b, c + 1, s \div Base)

BMul(a, b) == IF a = <<>> \/ b = <<>> THEN <<>> ELSE Trim(MulFrom(a, b, 0, 0))

\* a * Base^n and floor(a / Base^n)
BShl(a, n) == IF a = <<>> THEN <<>> ELSE [k \in 1..n |-> 0] \o a
BShr(a, n) == IF Len(a) <= n THEN <<>> ELSE SubSeq(a, n + 1, Len(a))

\* the largest q in lo..hi-1 with b * q <= r, given b * lo <= r < b * hi
RECURSIVE Digit(_, _, _, _)
Digit(r, b, lo, hi) ==
    IF hi - lo <= 1 THEN lo
    ELSE LET mid == (lo + hi) \div 2
         IN  IF BLe(BMulSmall(b, mid), r) THEN Digit(r, b, mid, hi)
             ELSE Digit(r, b, lo, mid)

\* floor(a / b) for b # 0 by long division: limb i of a next, r the remainder so far
RECURSIVE DivFrom(_, _, _, _)
DivFrom(a, b, i, r) ==
    IF i = 0 THEN <<>>
    ELSE LET cur == Trim(<<a[i]>> \o r)
             q == Digit(cur, b, 0, Base)
         IN  DivFrom(a, b, i - 1, BSub(cur, BMulSmall(b, q))) \o <<q>>

BDiv(a, b) == IF b = <<>> THEN <<>> ELSE Trim(DivFrom(a, b, Len(a), <<>>))

\* floor(sqrt(a)): the limbs of the root from the top, res the root so far
\* (a sequence of n limbs, those below k still 0)
RECURSIVE RootDigit(_, _, _, _, _)
RootDigit(a, res, k, lo, hi) ==
    IF hi - lo <= 1 THEN lo
    ELSE LET mid == (lo + hi) \div 2
             cand == Trim([res EXCEPT ![k] = mid])
         IN  IF BLe(BMul(cand, cand), a) THEN RootDigit(a, res, k, mid, hi)
             ELSE RootDigit(a, res, k, lo, mid)

RECURSIVE RootFrom(_, _, _)
RootFrom(a, res, k) ==
    IF k = 0 THEN res
    ELSE RootFrom(a, [res EXCEPT ![k] = RootDigit(a, res, k, 0, Base)], k - 1)

BSqrt(a) ==
    LET n == (Len(a) + 1) \div 2
    IN  Trim(RootFrom(a, [k \in 1..n |-> 0], n))

(***************************************************************************)
(* Floats.  A float is [neg |-> sign bit, m |-> magnitude * 2^52], the     *)
(* magnitude an exact natural number as above.  -0.0 is [neg |-> TRUE,     *)
(* m |-> <<>>].                                                            *)
(***************************************************************************)
One == BShl(<<1>>, FracLimbs)

Flt(neg, m) == [neg |-> neg, m |-> m]
Zero == Flt(FALSE, <<>>)
IsZero(a) == a.m = <<>>

\* magnitudes: the product and the quotient, rounded towards zero
MMul(a, b) == BShr(BMul(a, b), FracLimbs)
MDiv(a, b) == BDiv(BShl(a, FracLimbs), b)

\* a decimal literal of the source: the digits without the point, and the number
\* of decimal places the point stands for (3.25 is digits <<3,2,5>>, places 2;
\* 9.9e-3 is digits <<9,9>>, places 4), rounded to the nearest representable
RECURSIVE DigitsFrom(_, _)
DigitsFrom(ds, k) ==
    IF k = 0 THEN <<>>
    ELSE BAdd(BMulSmall(DigitsFrom(ds, k - 1), 10), BFromInt(ds[k]))

RECURSIVE Pow10(_)
Pow10(n) == IF n = 0 THEN <<1>> ELSE BMulSmall(Pow10(n - 1), 10)

Literal(neg, ds, places) ==
    Flt(neg, BDiv(BAdd(BMulSmall(BShl(DigitsFrom(ds, Len(ds)), FracLimbs), 2), Pow10(places)),
                  BMulSmall(Pow10(places), 2)))

\* float comparison: -0.0 = 0.0
FLess(a, b) ==
    IF IsZero(a) /\ IsZero(b) THEN FALSE
    ELSE IF a.neg /\ ~b.neg THEN TRUE
    ELSE IF ~a.neg /\ b.neg THEN FALSE
    ELSE IF a.neg THEN BLt(b.m, a.m)
    ELSE BLt(a.m, b.m)

FEq(a, b) == ~FLess(a, b) /\ ~FLess(b, a)

\* a * b, a / b (b nonzero: Python raises ZeroDivisionError otherwise), a + b
FMul(a, b) == Flt(a.neg # b.neg, MMul(a.m, b.m))
FDiv(a, b) == Flt(a.neg # b.neg, MDiv(a.m, b.m))

FAdd(a, b) ==
    IF a.neg = b.neg THEN Flt(a.neg, BAdd(a.m, b.m))
    ELSE IF BCmp(a.m, b.m) = 0 THEN Zero
    ELSE IF BLt(b.m, a.m) THEN Flt(a.neg, BSub(a.m, b.m))
    ELSE Flt(b.neg, BSub(b.m, a.m))

FSub(a, b) == FAdd(a, Flt(~b.neg, b.m))

\* e^t for a magnitude t: the Taylor series, summed until the term vanishes, for
\* t <= 1/2, and the square of e^(t/2) above that
RECURSIVE ExpFrom(_, _, _, _)
ExpFrom(term, t, n, sum) ==
    IF term = <<>> THEN sum
    ELSE ExpFrom(BDivSmall(MMul(term, t), n), t, n + 1, BAdd(sum, term))

RECURSIVE ExpPos(_)
ExpPos(t) ==
    IF BLt(BDivSmall(One, 2), t)
    THEN LET h == ExpPos(BDivSmall(t, 2)) IN MMul(h, h)
    ELSE ExpFrom(One, t, 1, <<>>)

\* math.exp: e^|a|, and its reciprocal for a negative a
Exp(a) ==
    IF a.neg THEN Flt(FALSE, MDiv(One, ExpPos(a.m)))
    ELSE Flt(FALSE, ExpPos(a.m))

\* artanh(z) = z + z^3/3 + z^5/5 + ..., for a magnitude z <= 1/3
RECURSIVE AtanhFrom(_, _, _, _)
AtanhFrom(term, zz, j, sum) ==
    IF term = <<>> THEN sum
    ELSE AtanhFrom(MMul(term, zz), zz, j + 1, BAdd(sum, BDivSmall(term, 2 * j + 1)))

Atanh(z) == AtanhFrom(z, MMul(z, z), 0, <<>>)

Ln2 == BMulSmall(Atanh(BDivSmall(One, 3)), 2)

\* <<m, e>> with m = a * 2^e and One <= m < 2 * One, for a magnitude a # 0
RECURSIVE Frexp(_, _)
Frexp(a, e) ==
    IF BLt(a, One) THEN Frexp(BMulSmall(a, 2), e + 1)
    ELSE IF BLe(BMulSmall(One, 2), a) THEN Frexp(BDivSmall(a, 2), e - 1)
    ELSE <<a, e>>

\* math.log of a float a > 0 (Python raises ValueError otherwise):
\* ln a = ln m - e * ln 2, ln m = 2 * artanh((m - 1) / (m + 1)).  The result has
\* the sign of a - 1 and is 0 only for a = 1, as math.log's is.
Log(a) ==
    LET me == Frexp(a.m, 0)
        lnm == BMulSmall(Atanh(MDiv(BSub(me[1], One), BAdd(me[1], One))), 2)
        r == IF me[2] >= 0 THEN FSub(Flt(FALSE, lnm), Flt(FALSE, BMulSmall(Ln2, me[2])))
             ELSE Flt(FALSE, BAdd(lnm, BMulSmall(Ln2, -me[2])))
    IN  IF BCmp(a.m, One) = 0 THEN Zero
        ELSE IF BLt(a.m, One) THEN Flt(TRUE, IF IsZero(r) \/ ~r.neg THEN <<1>> ELSE r.m)
        ELSE Flt(FALSE, IF IsZero(r) \/ r.neg THEN <<1>> ELSE r.m)

\* math.sqrt of a float a >= 0 (Python raises ValueError for a < 0; sqrt(-0.0) is -0.0)
Sqrt(a) == Flt(a.neg, BSqrt(BShl(a.m, FracLimbs)))

(***************************************************************************)
(* print(f"{x[i]},"): the decimal text of a float, as a sequence of        *)
(* characters.  Python prints the shortest decimal that reads back as the  *)
(* same float; the model prints the value rounded to ReprPlaces decimal    *)
(* places without trailing zeros, and at least one place ("0.0", "-0.0").  *)
(* The table's values are never small enough for Python's exponent form.   *)
(***************************************************************************)
ReprPlaces == 15

DigitChar == <<"0", "1", "2", "3", "4", "5", "6", "7", "8", "9">>

\* the lowest decimal digit of n
LowDigit(n) == Limb(BSub(n, BMulSmall(BDivSmall(n, 10), 10)), 1)

\* the k lowest decimal digits of n, and all of them, most significant first
RECURSIVE DecFrom(_, _)
DecFrom(n, k) == IF k = 0 THEN <<>> ELSE DecFrom(BDivSmall(n, 10), k - 1) \o <<LowDigit(n)>>

RECURSIVE DecAll(_)
DecAll(n) == IF n = <<>> THEN <<>> ELSE DecAll(BDivSmall(n, 10)) \o <<LowDigit(n)>>

RECURSIVE StripZeros(_)
StripZeros(ds) ==
    IF Len(ds) > 1 /\ ds[Len(ds)] = 0 THEN StripZeros(SubSeq(ds, 1, Len(ds) - 1)) ELSE ds

Chars(ds) == [k \in 1..Len(ds) |-> DigitChar[ds[k] + 1]]

Repr(a) ==
    LET n == BShr(BAdd(BMul(a.m, Pow10(ReprPlaces)), BDivSmall(One, 2)), FracLimbs)
        whole == DecAll(BDiv(n, Pow10(ReprPlaces)))
    IN  (IF a.neg THEN <<"-">> ELSE <<>>)
        \o Chars(IF whole = <<>> THEN <<0>> ELSE whole)
        \o <<".">>
        \o Chars(StripZeros(DecFrom(n, ReprPlaces)))

(***************************************************************************)
(* main().  The parameters C, R, V are the three constants main() starts   *)
(* with; the source holds two sets of them, one commented out.             *)
(***************************************************************************)
VARIABLES C, R, V, x, f, i, pc, err, out, writes

\* the sampler that reads the finished table: its position, the layer, sign and
\* candidate drawn, the last two uniform draws, the path that accepted, the value
\* returned and the number of rejections so far in the call
VARIABLES spc, layer, sign, cand, u1, u2, via, ret, tries

svars == <<spc, layer, sign, cand, u1, u2, via, ret, tries>>

vars == <<C, R, V, x, f, i, pc, err, out, writes, svars>>

\* lines 5-7, and lines 9-11 (commented out)
SourceParams ==
    { <<128, Literal(FALSE, <<3,4,4,2,6,1,9,8,5,5,8,9,9>>, 12),
             Literal(FALSE, <<9,9,1,2,5,6,3,0,3,5,2,6,2,1,7>>, 17)>>,
      <<256, Literal(FALSE, <<3,6,5,4,1,5,2,8,8,5,3,6,1,0,0,8,8>>, 16),
             Literal(FALSE, <<4,9,2,8,6,7,3,2,3,3,9,9>>, 14)>> }

\* the literals -0.5 and -2.0
MinusHalf == Literal(TRUE, <<5>>, 1)
MinusTwo == Literal(TRUE, <<2, 0>>, 1)

NoError == [type |-> "none", msg |-> ""]
ZeroDivisionError == [type |-> "ZeroDivisionError", msg |-> "float division by zero"]
IndexError == [type |-> "IndexError", msg |-> "list assignment index out of range"]
ValueError == [type |-> "ValueError", msg |-> "math domain error"]

\* math.exp(-0.5 * t * t)
Density(t) == Exp(FMul(FMul(MinusHalf, t), t))

\* V / x[i - 1] + f, the argument of math.log, for x[i - 1] nonzero
LogArg(xprev, fprev, v) == FAdd(FDiv(v, xprev), fprev)

\* line 22: what the right-hand side raises, if anything
StepErrorLogOnly(xprev, fprev, v) ==
    IF IsZero(xprev) THEN ZeroDivisionError
    ELSE IF ~FLess(Zero, LogArg(xprev, fprev, v)) THEN ValueError
    ELSE NoError
StepError(xprev, fprev, v) ==
    IF IsZero(xprev) THEN ZeroDivisionError
    ELSE IF ~FLess(Zero, LogArg(xprev, fprev, v)) THEN ValueError
    ELSE IF FLess(FMul(MinusTwo, Log(LogArg(xprev, fprev, v))), Zero) THEN ValueError
    ELSE NoError

\* line 22: math.sqrt(-2.0 * math.log(V / x[i - 1] + f)), when nothing is raised
NextXNoFactor(xprev, fprev, v) == Sqrt(FMul(Flt(TRUE, One), Log(LogArg(xprev, fprev, v))))
NextX(xprev, fprev, v) == Sqrt(FMul(MinusTwo, Log(LogArg(xprev, fprev, v))))

\* line 22 as a function of the list: the value stored in x[k]
RecurOffByOne(xs, fprev, v, k) == NextX(xs[k - 2], fprev, v)
Recur(xs, fprev, v, k) == NextX(xs[k - 1], fprev, v)

\* range(2, C) and range(0, C + 1)
LoopRangeInclusive(c) == 2..c
LoopRangeShort(c) == 2..(c - 2)
LoopRange(c) == 2..(c - 1)
EmitRange(c) == 0..c

\* f"{x[i]},"
LineBare(v) == Repr(v)
Line(v) == Repr(v) \o <<",">>

vInit(params) ==
    /\ \E p \in params : C = p[1] /\ R = p[2] /\ V = p[3]
    /\ x = <<>>
    /\ f = Zero
    /\ i = 0
    /\ pc = "setup"
    /\ err = NoError
    /\ out = <<>>
    /\ writes = <<>>
    /\ spc = "idle"
    /\ layer = 0
    /\ sign = 1
    /\ cand = Zero
    /\ u1 = Zero
    /\ u2 = Zero
    /\ via = "none"
    /\ ret = Zero
    /\ tries = 0

Raise(e) ==
    /\ pc' = "failed"
    /\ err' = e

\* lines 13-19: the list, f = f(R), x[0], x[1], x[C]
Setup ==
    /\ pc = "setup"
    /\ LET x13 == [k \in 0..C |-> Zero]
           f15 == Density(R)
       IN  /\ f' = f15
           /\ IF IsZero(f15)
              THEN Raise(ZeroDivisionError) /\ x' = x13 /\ writes' = <<>> /\ i' = i
              ELSE IF C < 0
              THEN Raise(IndexError) /\ x' = x13 /\ writes' = <<>> /\ i' = i
              ELSE IF C < 1
              THEN /\ Raise(IndexError)
                   /\ x' = [x13 EXCEPT ![0] = FDiv(V, f15)]
                   /\ writes' = <<0>>
                   /\ i' = i
              ELSE /\ x' = [[[x13 EXCEPT ![0] = FDiv(V, f15)] EXCEPT ![1] = R] EXCEPT ![C] = Zero]
                   /\ writes' = <<0, 1, C>>
                   /\ i' = 2
                   /\ pc' = "loop"
                   /\ err' = err
    /\ UNCHANGED <<C, R, V, out, svars>>

\* lines 21-23: one iteration of the recursion
LoopEmitting ==
    /\ pc = "loop"
    /\ i \in LoopRange(C)
    /\ LET e == StepError(x[i - 1], f, V)
       IN  IF e # NoError
           THEN Raise(e) /\ UNCHANGED <<x, f, i, writes, out>>
           ELSE LET xi == Recur(x, f, V, i)
                IN  /\ x' = [x EXCEPT ![i] = xi]
                    /\ f' = Density(xi)
                    /\ i' = i + 1
                    /\ writes' = Append(writes, i)
                    /\ out' = Append(out, Line(xi))
                    /\ UNCHANGED <<pc, err>>
    /\ UNCHANGED <<C, R, V, svars>>

LoopStaleDensity ==
    /\ pc = "loop"
    /\ i \in LoopRange(C)
    /\ LET e == StepError(x[i - 1], f, V)
       IN  IF e # NoError
           THEN Raise(e) /\ UNCHANGED <<x, f, i, writes>>
           ELSE /\ x' = [x EXCEPT ![i] = Recur(x, f, V, i)]
                /\ i' = i + 1
                /\ writes' = Append(writes, i)
                /\ UNCHANGED <<f, pc, err>>
    /\ UNCHANGED <<C, R, V, out, svars>>

Loop ==
    /\ pc = "loop"
    /\ i \in LoopRange(C)
    /\ LET e == StepError(x[i - 1], f, V)
       IN  IF e # NoError
           THEN Raise(e) /\ UNCHANGED <<x, f, i, writes>>
           ELSE LET xi == Recur(x, f, V, i)
                IN  /\ x' = [x EXCEPT ![i] = xi]
                    /\ f' = Density(xi)
                    /\ i' = i + 1
                    /\ writes' = Append(writes, i)
                    /\ UNCHANGED <<pc, err>>
    /\ UNCHANGED <<C, R, V, out, svars>>

\* line 21 is exhausted: on to line 25
LoopDone ==
    /\ pc = "loop"
    /\ i \notin LoopRange(C)
    /\ pc' = "print"
    /\ i' = 0
    /\ UNCHANGED <<C, R, V, x, f, err, out, writes, svars>>

\* lines 25-26: one line of output
Emit ==
    /\ pc = "print"
    /\ i \in EmitRange(C)
    /\ out' = Append(out, Line(x[i]))
    /\ i' = i + 1
    /\ UNCHANGED <<C, R, V, x, f, pc, err, writes, svars>>

\* line 25 is exhausted: main() returns
EmitDone ==
    /\ pc = "print"
    /\ i \notin EmitRange(C)
    /\ pc' = "done"
    /\ UNCHANGED <<C, R, V, x, f, i, err, out, writes, svars>>

Next == Setup \/ Loop \/ LoopDone \/ Emit \/ EmitDone

\* main() as the source has it
Init == vInit(SourceParams)

Spec == Init /\ [][Next]_vars

(***************************************************************************)
(* main() with lines 5-7 edited: the parameter sets of the source, every   *)
(* C from -1 to MaxC with a few values of R and V of either sign, and the  *)
(* inconsistent set C = 128, R = 0.1, V = 9.91e-3.                         *)
(***************************************************************************)
MaxC == 6

TenthR == Literal(FALSE, <<1>>, 1)
SmallV == Literal(FALSE, <<9, 9, 1>>, 5)
ParamR == {Literal(TRUE, <<1, 0>>, 1), Zero, TenthR, Literal(FALSE, <<1, 0>>, 1)}
ParamV == {Literal(TRUE, <<1, 0>>, 1), Zero, Literal(FALSE, <<1>>, 1), SmallV}

AnyParams ==
    SourceParams
    \cup {<<c, r, v>> : c \in (-1)..MaxC, r \in ParamR, v \in ParamV}
    \cup {<<128, TenthR, SmallV>>}

InitAny == vInit(AnyParams)

SpecAny == InitAny /\ [][Next]_vars

(***************************************************************************)
(* The Ziggurat sampler and its tail sampler, which read the table this    *)
(* script prints.  Their code is not among the Python sources: they are    *)
(* modelled from sections 4.2 and 4.3 of the specification.  The uniform   *)
(* source is a choice among a few values of [0, 1) and of (0, 1).  For     *)
(* layer C the fast path of step 3 would compare with x[C+1], which the    *)
(* table does not have, so step 4 (the tail path) is taken before it.      *)
(***************************************************************************)
MaxTries == 2

Uniforms == {Zero, Literal(FALSE, <<5>>, 1), Literal(FALSE, <<9, 9>>, 2)}
OpenUniforms == {Literal(FALSE, <<1>>, 2), Literal(FALSE, <<5>>, 1), Literal(FALSE, <<9, 9>>, 2)}

Signed(s, v) == Flt((s = -1) # v.neg, v.m)
Two == Literal(FALSE, <<2, 0>>, 1)

\* step 4: the layer handled by the tail sampler
IsTailLayer(k, c) == k = c

\* 4.3 step 2: x = -ln(u1) / R, y = -ln(u2)
TailX(a, r) == FDiv(FSub(Zero, Log(a)), r)
TailY(b) == FSub(Zero, Log(b))

\* 4.3 step 3: accept if 2 * y >= x * x
TailAccepts(tx, ty) == ~FLess(FMul(Two, ty), FMul(tx, tx))

\* 4.3 step 3: the value returned on acceptance
TailResultBare(tx, r) == tx
TailResult(tx, r) == FAdd(r, tx)

\* 4.2 steps 1 and 2: the layer, the sign and the candidate magnitude
SDraw ==
    /\ pc = "done"
    /\ spc \in {"idle", "draw"}
    /\ \E k \in 1..C, s \in {-1, 1}, u \in Uniforms :
           /\ layer' = k
           /\ sign' = s
           /\ u1' = u
           /\ cand' = FMul(u, x[k])
    /\ spc' = "test"
    /\ UNCHANGED <<C, R, V, x, f, i, pc, err, out, writes, u2, via, ret, tries>>

\* 4.2 steps 3 and 4: the fast path accepts, or the tail or the wedge path is next
STest ==
    /\ spc = "test"
    /\ IF IsTailLayer(layer, C)
       THEN spc' = "tail" /\ UNCHANGED <<via, ret>>
       ELSE IF FLess(cand, x[layer + 1])
       THEN spc' = "returned" /\ via' = "fast" /\ ret' = Signed(sign, cand)
       ELSE spc' = "wedge" /\ UNCHANGED <<via, ret>>
    /\ UNCHANGED <<C, R, V, x, f, i, pc, err, out, writes, layer, sign, cand, u1, u2, tries>>

\* 4.2 step 5: the wedge test accepts the candidate, or the loop starts again
SWedge ==
    /\ spc = "wedge"
    /\ tries < MaxTries
    /\ \E b \in Uniforms :
           /\ u2' = b
           /\ IF FLess(FAdd(Density(x[layer]),
                            FMul(b, FSub(Density(x[layer - 1]), Density(x[layer])))),
                       Density(cand))
              THEN spc' = "returned" /\ via' = "wedge" /\ ret' = Signed(sign, cand)
                   /\ tries' = tries
              ELSE spc' = "draw" /\ tries' = tries + 1 /\ UNCHANGED <<via, ret>>
    /\ UNCHANGED <<C, R, V, x, f, i, pc, err, out, writes, layer, sign, cand, u1>>

\* 4.3: one draw of the tail sampler, accepted or rejected
STail ==
    /\ spc = "tail"
    /\ tries < MaxTries
    /\ \E a \in OpenUniforms, b \in OpenUniforms :
           /\ u1' = a
           /\ u2' = b
           /\ IF TailAccepts(TailX(a, R), TailY(b))
              THEN /\ spc' = "returned"
                   /\ via' = "tail"
                   /\ cand' = TailResult(TailX(a, R), R)
                   /\ ret' = Signed(sign, TailResult(TailX(a, R), R))
                   /\ tries' = tries
              ELSE /\ tries' = tries + 1
                   /\ UNCHANGED <<spc, via, cand, ret>>
    /\ UNCHANGED <<C, R, V, x, f, i, pc, err, out, writes, layer, sign>>

NextSampler == Next \/ SDraw \/ STest \/ SWedge \/ STail

\* the sampler on the table of lines 5-7
InitSampler == vInit({p \in SourceParams : p[1] = 128})

SpecSampler == InitSampler /\ [][NextSampler]_vars

(***************************************************************************)
(* The claims.                                                             *)
(***************************************************************************)
FAbs(a) == Flt(FALSE, a.m)
Built == pc \in {"print", "done"}
Written(k) == \E n \in 1..Len(writes) : writes[n] = k
TimesWritten(k) == Len(SelectSeq(writes, LAMBDA w : w = k))

\* C1: in every state from the end of the set-up on, through the whole recursion
\* and the output, x[1] is exactly R and x[C] is exactly 0: the recursion never
\* overwrites either entry.
C1_EndpointsKept ==
    pc \in {"loop", "print", "done"} => x[1] = R /\ x[C] = Zero

C1_Witness ==
    /\ pc = "print"
    /\ \A k \in 2..(C - 1) : Written(k)
    /\ x[1] = R /\ x[C] = Zero

\* C2: in every table the builder produces the boundaries are strictly decreasing,
\* x[k] > x[k+1] for every k in 1..C-1, the last step x[C-1] > x[C] = 0 included.
C2_StrictlyDecreasing ==
    Built => \A k \in 1..(C - 1) : FLess(x[k + 1], x[k])

C2_Witness ==
    /\ pc = "done"
    /\ C >= 3
    /\ FLess(x[C], x[C - 1]) /\ FLess(x[2], x[1])

\* f(t) = exp(-t^2 / 2), as the claims write it
Gauss(t) == Exp(Flt(TRUE, BDivSmall(FMul(t, t).m, 2)))
Tolerance == FMul(Literal(FALSE, <<1>>, 9), V)
AreaAsClaimed(k) == FMul(x[k - 1], FSub(Gauss(x[k - 1]), Gauss(x[k])))
AreaOfLayer(k) == FMul(x[k - 1], FSub(Gauss(x[k]), Gauss(x[k - 1])))

\* C3, as claimed: for every i in 2..C-1, x[i-1] * (f(x[i-1]) - f(x[i])) is V to
\* within 1e-9 * V.  (Checked for each x[i] when the recursion has just stored it.)
C3_AsClaimed ==
    pc = "loop" /\ i > 2 =>
        FLess(FAbs(FSub(AreaAsClaimed(i - 1), V)), Tolerance)

\* C3, amended: for every i in 2..C-1, x[i-1] * (f(x[i]) - f(x[i-1])) is V to within
\* 1e-9 * V: the density grows as x decreases, so the claimed difference is -V.
C3_EqualArea ==
    /\ pc = "loop" /\ i > 2 =>
           FLess(FAbs(FSub(AreaOfLayer(i - 1), V)), Tolerance)
    /\ pc = "done" =>
           \A k \in 2..(C - 1) : FLess(FAbs(FSub(AreaOfLayer(k), V)), Tolerance)

C3_Witness ==
    /\ pc = "done"
    /\ C >= 3
    /\ \A k \in 2..(C - 1) : Written(k)
    /\ FLess(FAbs(FSub(AreaOfLayer(C - 1), V)), Tolerance)
    /\ FLess(AreaAsClaimed(C - 1), Zero)

\* a line of text as a decimal number: an optional "-", digits, one ".", digits
IsDigit(ch) == \E d \in 0..9 : DigitChar[d + 1] = ch
DigitOf(ch) == CHOOSE d \in 0..9 : DigitChar[d + 1] = ch
Unsigned(cs) == IF cs # <<>> /\ cs[1] = "-" THEN Tail(cs) ELSE cs
DotAt(cs) == CHOOSE p \in 1..Len(cs) : cs[p] = "."
IsDecimal(cs) ==
    LET b == Unsigned(cs)
    IN  /\ Len(SelectSeq(b, LAMBDA ch : ch = ".")) = 1
        /\ \A p \in 1..Len(b) : b[p] = "." \/ IsDigit(b[p])
        /\ 1 < DotAt(b) /\ DotAt(b) < Len(b)
DecimalValue(cs) ==
    LET b == Unsigned(cs)
        ds == SelectSeq(b, LAMBDA ch : ch # ".")
    IN  Literal(cs[1] = "-", [k \in 1..Len(ds) |-> DigitOf(ds[k])], Len(b) - DotAt(b))
\* the text reads back as v, to the last decimal place printed
ReadsBackAs(cs, v) ==
    /\ IsDecimal(cs)
    /\ ~FLess(Literal(FALSE, <<1>>, ReprPlaces), FAbs(FSub(DecimalValue(cs), v)))

\* C7, as claimed: the output is C+1 lines in index order 0..C, line k being the
\* decimal value of x[k] and nothing else.  (Each line is checked when it has
\* just been written.)
C7_AsClaimed ==
    Built =>
        /\ Len(out) = (IF pc = "done" THEN C + 1 ELSE i)
        /\ Len(out) > 0 => ReadsBackAs(out[Len(out)], x[Len(out) - 1])

LineIs(cs, v) ==
    /\ Len(cs) > 1
    /\ cs[Len(cs)] = ","
    /\ ReadsBackAs(SubSeq(cs, 1, Len(cs) - 1), v)

\* C7, amended: the output is exactly C+1 lines in index order 0..C, line k being
\* the decimal value of x[k] followed by one comma; nothing is written before the
\* table is complete, there is no header and no trailing line.
C7_LinesWithComma ==
    /\ ~Built => out = <<>>
    /\ pc = "print" => Len(out) = i /\ (i > 0 => LineIs(out[i], x[i - 1]))
    /\ pc = "done" => Len(out) = C + 1 /\ \A k \in 0..C : LineIs(out[k + 1], x[k])

C7_Witness ==
    /\ pc = "done"
    /\ Len(out) = C + 1
    /\ LineIs(out[2], R)
    /\ ~IsDecimal(out[2])

Probes == {Zero, Flt(FALSE, One), R}

\* C8, as claimed: x[0] is set once to V / f(R), never rewritten, and seeds the
\* recursion: the first step of the recursion depends on x[0].
C8_AsClaimed ==
    /\ pc \in {"loop", "print", "done"} => x[0] = FDiv(V, Density(R)) /\ TimesWritten(0) = 1
    /\ pc = "loop" /\ i = 2 =>
           \E v \in Probes : Recur([x EXCEPT ![0] = v], f, V, i) # Recur(x, f, V, i)

\* C8, amended: x[0] is set once to V / f(R) and never rewritten; no step of the
\* recursion reads it (the first step reads x[1] = R and f(R)): whatever x[0]
\* holds, every step stores the same value.
C8_SeedUnread ==
    /\ pc \in {"loop", "print", "done"} => x[0] = FDiv(V, Density(R)) /\ TimesWritten(0) = 1
    /\ pc = "loop" /\ i \in LoopRange(C) =>
           \A v \in Probes : Recur([x EXCEPT ![0] = v], f, V, i) = Recur(x, f, V, i)

C8_Witness ==
    /\ pc = "loop"
    /\ i = 3
    /\ x[0] = FDiv(V, Density(R))
    /\ \A v \in Probes : v # x[0]
    /\ writes = <<0, 1, C, 2>>

\* C10: the recursion runs i = 2, 3, ..., C-1 in ascending order, C-2 iterations,
\* storing each x[i] once; at the start of iteration i the running density f is
\* exp(-0.5 * x[i-1]^2) (f(R) for i = 2), and the x[i] stored is
\* sqrt(-2 * ln(V / x[i-1] + f)) for that f.
C10_Recursion ==
    /\ pc = "loop" =>
        /\ i \in 2..C
        /\ writes = <<0, 1, C>> \o [k \in 1..(i - 2) |-> k + 1]
        /\ f = Density(x[i - 1])
        /\ i = 2 => f = Density(R)
        /\ i > 2 => x[i - 1] = Sqrt(FMul(MinusTwo,
                                   Log(FAdd(FDiv(V, x[i - 2]), Density(x[i - 2])))))
    /\ Built => writes = <<0, 1, C>> \o [k \in 1..(C - 2) |-> k + 1]

C10_Witness ==
    /\ pc = "print"
    /\ C >= 4
    /\ Len(writes) = C + 1
    /\ writes[4] = 2 /\ writes[C + 1] = C - 1

\* the argument of the logarithm is outside (0, 1]
BadArg(xprev, fprev, v) ==
    \/ ~FLess(Zero, FAdd(FDiv(v, xprev), fprev))
    \/ FLess(Flt(FALSE, One), FAdd(FDiv(v, xprev), fprev))

FailedInLoop == pc = "failed" /\ Len(writes) >= 3
IsExample == C = 128 /\ R = TenthR /\ V = SmallV

\* C4, as claimed: an iteration whose logarithm argument is <= 0 or > 1 fails at
\* once with DomainError carrying the index and the argument, no later iteration
\* runs and no table is produced.
C4_AsClaimed ==
    /\ FailedInLoop /\ ~IsZero(x[i - 1]) /\ BadArg(x[i - 1], f, V) =>
           /\ err = [type |-> "DomainError", index |-> i,
                     argument |-> FAdd(FDiv(V, x[i - 1]), f)]
           /\ out = <<>>
    /\ pc = "loop" /\ i > 2 => ~BadArg(x[i - 2], Density(x[i - 2]), V)

\* C4, amended: an iteration whose logarithm argument is <= 0 or > 1 fails at once
\* with Python's ValueError "math domain error" (from math.log for an argument
\* <= 0, from math.sqrt for an argument > 1), which carries neither index nor
\* argument; x[i] is not stored, no later iteration runs and nothing is printed.
\* With C = 128, R = 0.1, V = 9.91e-3 the run fails so in its first iteration.
C4_FailsAtOnce ==
    /\ FailedInLoop /\ ~IsZero(x[i - 1]) /\ BadArg(x[i - 1], f, V) =>
           err = ValueError /\ out = <<>> /\ ~Written(i)
    /\ pc = "loop" /\ i > 2 => ~BadArg(x[i - 2], Density(x[i - 2]), V)
    /\ err # NoError => out = <<>> /\ pc = "failed"
    /\ IsExample =>
           \/ pc = "setup"
           \/ pc = "loop" /\ i = 2
           \/ pc = "failed" /\ i = 2 /\ err = ValueError

C4_Witness ==
    /\ IsExample
    /\ pc = "failed"
    /\ i = 2
    /\ FLess(Flt(FALSE, One), FAdd(FDiv(V, x[1]), f))
    /\ err = ValueError
    /\ out = <<>>

Invalid == C < 3 \/ ~FLess(Zero, R) \/ ~FLess(Zero, V)

\* C5: whenever C < 3 or R <= 0 or V <= 0 the builder fails with InvalidParameters
\* before it stores any entry, and never emits or returns a table.
C5_AsClaimed ==
    Invalid /\ pc # "setup" =>
        /\ pc = "failed"
        /\ err.type = "InvalidParameters"
        /\ writes = <<>>
        /\ out = <<>>

\* C6: nothing is emitted before every entry x[0..C] has been stored, so a run that
\* fails emits nothing: no part of an unfinished table is ever printed.
C6_AllOrNothing ==
    /\ out # <<>> =>
           /\ pc \in {"print", "done"}
           /\ err = NoError
           /\ \A k \in 0..C : Written(k)
    /\ pc = "failed" => out = <<>>

C6_Witness ==
    /\ pc = "failed"
    /\ Len(writes) > 3
    /\ i > 2
    /\ out = <<>>

====
